---- MODULE Spec2Model ----
(***************************************************************************)
(* A model of scripts/evm-example/server-express.ts: an Express resource   *)
(* server with two payment-gated GET routes.  /weather answers a fixed     *)
(* JSON body; /tee-demo calls the Redpill chat-completions API and then    *)
(* the Redpill signature API and answers with the combined result.  The    *)
(* payment middleware (@faremeter/middleware/express) is not part of the   *)
(* source file; its behaviour follows section 4.2 of the specification.    *)
(*                                                                         *)
(* One action is one uninterrupted run of JavaScript: from the arrival of  *)
(* an event (request, settled promise, signal) to the next await.  Reading *)
(* the body of a settled fetch (text(), json()) is folded into the step    *)
(* that handles the settled fetch: no other handler can observe or change  *)
(* the locals of the suspended one in between.  A connection carries one   *)
(* request and ends with its response.                                     *)
(***************************************************************************)
EXTENDS Naturals, Sequences, FiniteSets, TLC

\* Bounds of the model.
MaxRequests == 2
MaxSignals == 2

Requests == 1..MaxRequests

\* JavaScript's undefined, kept apart from every string a body can carry.
Undefined == "<undefined>"

Routes == {"/weather", "/tee-demo"}

Model == "phala/qwen-2.5-7b-instruct"

network == "base-sepolia"

(***************************************************************************)
(* What the upstream provider can answer.                                  *)
(***************************************************************************)

\* The fields of a parsed chat body the handler reads (RedpillChatResponse).
\* choices is a sequence of [hasMessage, content]; hasChoices is FALSE when
\* the field is missing from the body.
ChatObject(id, hasChoices, choices) ==
  [id |-> id, model |-> Model, hasChoices |-> hasChoices, choices |-> choices,
   usage |-> Undefined]

NoChatData == ChatObject(Undefined, FALSE, <<>>)

Choice(hasMessage, content) == [hasMessage |-> hasMessage, content |-> content]

ChatBodies ==
  { ChatObject("req-1", TRUE, <<Choice(TRUE, "hi")>>),
    ChatObject("req-2", TRUE, <<>>),
    ChatObject("req-1", TRUE, <<Choice(FALSE, Undefined)>>),
    ChatObject("req-1", TRUE, <<Choice(TRUE, Undefined)>>),
    ChatObject("req-2", FALSE, <<>>),
    ChatObject(Undefined, TRUE, <<Choice(TRUE, "hi")>>) }

\* A settled fetch: kind "reject" is a rejected promise (network failure);
\* kind "http" carries a status and a body that is unparsable, the JSON
\* value null, or a JSON object.
HttpReply(status, statusText, json, data) ==
  [kind |-> "http", status |-> status, statusText |-> statusText,
   json |-> json, data |-> data]

RejectedFetch(data) ==
  [kind |-> "reject", status |-> 0, statusText |-> "fetch failed",
   json |-> "unparsable", data |-> data]

ChatReplies ==
  { RejectedFetch(NoChatData),
    HttpReply(500, "Internal Server Error", "object", NoChatData),
    HttpReply(200, "OK", "unparsable", NoChatData),
    HttpReply(200, "OK", "null", NoChatData) }
  \cup { HttpReply(200, "OK", "object", b) : b \in ChatBodies }

NoChatReply == HttpReply(0, "", "none", NoChatData)

\* The fields of a parsed signature body (RedpillSignatureResponse).
SignatureObject(request_id, hasCertChain, cert_chain) ==
  [request_id |-> request_id, signature |-> Undefined, payload |-> Undefined,
   hasCertChain |-> hasCertChain, cert_chain |-> cert_chain]

NoSignatureData == SignatureObject(Undefined, FALSE, <<>>)

SignatureBodies(id) ==
  { SignatureObject(id, TRUE, <<"a", "b">>),
    SignatureObject(id, FALSE, <<>>) }

SignatureReplies(id) ==
  { RejectedFetch(NoSignatureData),
    HttpReply(404, "Not Found", "unparsable", NoSignatureData),
    HttpReply(200, "OK", "unparsable", NoSignatureData) }
  \cup { HttpReply(200, "OK", "object", b) : b \in SignatureBodies(id) }

NoSignatureReply == HttpReply(0, "", "none", NoSignatureData)

\* Response.ok of the Fetch API.
Ok(reply) == reply.status >= 200 /\ reply.status <= 299

(***************************************************************************)
(* State.                                                                  *)
(***************************************************************************)
VARIABLES
  REDPILL_API_KEY,   \* process.env.REDPILL_API_KEY, read once at module load
  payTo,             \* process.env.EVM_RECEIVING_ADDRESS, validated at load
  lifecycle,         \* "serving", "draining" (server.close called), "exited"
  closeCallbacks,    \* callbacks registered by server.close(cb)
  pc,                \* where each request's handling is suspended
  route,             \* the path each request asked for
  proof,             \* whether the request carries a payment proof
  verdict,           \* the VerificationResult of the request
  innerCalls,        \* how often the route's handler ran for the request
  chatCalls,         \* fetches of the chat endpoint made for the request
  sigCalls,          \* fetches of the signature endpoint made for the request
  chatData,          \* the handler's local chatData
  signatureUrl,      \* the URL of the request's signature fetch
  chatReply,         \* what the chat endpoint answered to the request
  sigReply,          \* what the signature endpoint answered to the request
  responses          \* the responses written for the request, in order

configVars == <<REDPILL_API_KEY, payTo>>
serverVars == <<lifecycle, closeCallbacks>>
requestVars == <<route, proof>>
handlerVars == <<innerCalls, chatCalls, sigCalls, chatData, signatureUrl>>
netVars == <<chatReply, sigReply>>
vars == <<REDPILL_API_KEY, payTo, lifecycle, closeCallbacks,
          pc, route, proof, verdict, innerCalls, chatCalls, sigCalls,
          chatData, signatureUrl, chatReply, sigReply, responses>>

InFlight == {r \in Requests : pc[r] \notin {"idle", "done"}}

(***************************************************************************)
(* Pure parts of the handlers.                                             *)
(***************************************************************************)

\* Variant: the body without its message field.
WeatherBodyNoMessage == [temperature |-> 72, conditions |-> "sunny"]

WeatherBody ==
  [temperature |-> 72, conditions |-> "sunny",
   message |-> "Thanks for your payment!"]

ConfigurationErrorBody ==
  [error |-> "Service configuration error",
   message |-> "REDPILL_API_KEY not configured in environment"]

\* Variant: the credential check removed.
KeyMissingNever == FALSE

\* !REDPILL_API_KEY: undefined and the empty string are both falsy.
KeyMissing == REDPILL_API_KEY \in {Undefined, ""}

\* Variant: the status of the chat response is not looked at.
ChatFailedNever(reply) == FALSE

\* !chatResponse.ok
ChatFailed(reply) == ~Ok(reply)

\* !signatureResponse.ok
SignatureFailed(reply) == ~Ok(reply)

\* `${value}` in a template literal.
TemplateString(value) == IF value = Undefined THEN "undefined" ELSE value

SignaturePrefix == "https://api.redpill.ai/v1/signature/"

SignatureQuery == "?model=phala/qwen-2.5-7b-instruct&signing_algo=ecdsa"

\* Variant: the placeholder written without ${}.
SignatureUrlLiteral(requestId) ==
  SignaturePrefix \o "requestId" \o SignatureQuery

SignatureUrl(requestId) ==
  SignaturePrefix \o TemplateString(requestId) \o SignatureQuery

RECURSIVE IndexOf(_, _, _)
IndexOf(s, c, i) ==
  IF i > Len(s) THEN 0
  ELSE IF SubSeq(s, i, i) = c THEN i
  ELSE IndexOf(s, c, i + 1)

\* The request id the signature endpoint reads from the path of a URL: what
\* follows /v1/signature/ up to the query string.
UrlPathId(url) ==
  LET q == IndexOf(url, "?", Len(SignaturePrefix) + 1)
      path == IF q = 0 THEN url ELSE SubSeq(url, 1, q - 1)
  IN SubSeq(path, Len(SignaturePrefix) + 1, Len(path))

Value(v) == [threw |-> FALSE, value |-> v]

Throw(message) == [threw |-> TRUE, value |-> message]

\* chatData.choices[0]?.message.content || ""
\* The optional chain guards choices[0] alone: a missing choices array and a
\* first choice without a message raise a TypeError.
FirstChoiceContent(data) ==
  IF ~data.hasChoices
    THEN Throw("Cannot read properties of undefined (reading '0')")
  ELSE IF Len(data.choices) = 0 THEN Value("")
  ELSE IF ~data.choices[1].hasMessage
    THEN Throw("Cannot read properties of undefined (reading 'content')")
  ELSE IF data.choices[1].content \in {Undefined, ""} THEN Value("")
  ELSE Value(data.choices[1].content)

\* signatureData.cert_chain?.length ?? 0
CertChainLength(data) ==
  IF data.hasCertChain THEN Len(data.cert_chain) ELSE 0

CombinedBody(data, signatureData, content) ==
  [message |-> "Thanks for your payment! Here's your TEE-verified AI response.",
   chat |-> [request_id |-> data.id, model |-> data.model,
             response |-> content, usage |-> data.usage],
   tee_verification |->
     [request_id |-> signatureData.request_id,
      signature |-> signatureData.signature,
      payload |-> signatureData.payload,
      cert_chain_length |-> CertChainLength(signatureData)]]

(***************************************************************************)
(* Initial state: the module has loaded, run() has mounted both routes,    *)
(* app.listen has bound the port and the signal handlers are installed.    *)
(***************************************************************************)

\* isAddress(payTo) held at load, or the module threw before run().
Addresses == {"0x00000000000000000000000000000000000000a1"}

Keys == {Undefined, "", "sk-redpill"}

Init ==
  /\ REDPILL_API_KEY \in Keys
  /\ payTo \in Addresses
  /\ lifecycle = "serving"
  /\ closeCallbacks = 0
  /\ pc = [r \in Requests |-> "idle"]
  /\ route = [r \in Requests |-> "none"]
  /\ proof = [r \in Requests |-> "none"]
  /\ verdict = [r \in Requests |-> "none"]
  /\ innerCalls = [r \in Requests |-> 0]
  /\ chatCalls = [r \in Requests |-> 0]
  /\ sigCalls = [r \in Requests |-> 0]
  /\ chatData = [r \in Requests |-> NoChatData]
  /\ signatureUrl = [r \in Requests |-> ""]
  /\ chatReply = [r \in Requests |-> NoChatReply]
  /\ sigReply = [r \in Requests |-> NoSignatureReply]
  /\ responses = [r \in Requests |-> <<>>]

(***************************************************************************)
(* The route handlers.  Each operator below is one run of a handler up to  *)
(* its next await; it sets pc, responses and the handler variables of r.   *)
(***************************************************************************)

\* res.status(status).json(body): the response is written and ended.
Respond(r, status, body) ==
  /\ responses' = [responses EXCEPT ![r] = Append(@, [status |-> status, body |-> body])]
  /\ pc' = [pc EXCEPT ![r] = "done"]

\* Variant: no catch block; the rejection of the async handler is unhandled
\* and the request is never answered.
CatchNothing(r, message) ==
  /\ pc' = [pc EXCEPT ![r] = "unhandled"]
  /\ UNCHANGED responses

\* The catch block of the /tee-demo handler.
Catch(r, message) ==
  Respond(r, 500, [error |-> "TEE verification failed", message |-> message])

WeatherHandler(r) ==
  /\ innerCalls' = [innerCalls EXCEPT ![r] = @ + 1]
  /\ Respond(r, 200, WeatherBody)
  /\ UNCHANGED <<chatCalls, sigCalls, chatData, signatureUrl>>

\* The /tee-demo handler from its start to the await of the chat fetch.
TeeDemoHandler(r) ==
  /\ innerCalls' = [innerCalls EXCEPT ![r] = @ + 1]
  /\ IF KeyMissing
       THEN /\ Respond(r, 500, ConfigurationErrorBody)
            /\ UNCHANGED <<chatCalls, sigCalls, chatData, signatureUrl>>
       ELSE /\ chatCalls' = [chatCalls EXCEPT ![r] = @ + 1]
            /\ pc' = [pc EXCEPT ![r] = "awaitChat"]
            /\ UNCHANGED <<responses, sigCalls, chatData, signatureUrl>>

\* Variant: chatData declared at module level, one variable for all requests.
StoreChatDataShared(r, data) == chatData' = [q \in Requests |-> data]

\* const chatData = await chatResponse.json(): a local of this invocation.
StoreChatData(r, data) == chatData' = [chatData EXCEPT ![r] = data]

\* Variant: a failed chat call is tried once more.
RetryChatFailed(r, reply) ==
  IF chatCalls[r] < 2
    THEN /\ chatCalls' = [chatCalls EXCEPT ![r] = @ + 1]
         /\ UNCHANGED <<pc, responses, sigCalls, chatData, signatureUrl>>
    ELSE /\ Respond(r, 500, [error |-> "TEE verification failed", message |-> "Chat API failed"])
         /\ UNCHANGED <<chatCalls, sigCalls, chatData, signatureUrl>>

\* The chat fetch answered with a non-2xx status: the handler reads the body
\* as text, logs it and throws; the catch block answers.
ThrowChatFailed(r, reply) ==
  /\ Catch(r, "Chat API failed: " \o ToString(reply.status) \o " " \o reply.statusText)
  /\ UNCHANGED <<chatCalls, sigCalls, chatData, signatureUrl>>

\* The handler from the settled chat fetch to the await of the signature
\* fetch.
AfterChatFetch(r, reply) ==
  /\ UNCHANGED innerCalls
  /\ IF reply.kind = "reject"
       THEN /\ Catch(r, reply.statusText)
            /\ UNCHANGED <<chatCalls, sigCalls, chatData, signatureUrl>>
     ELSE IF ChatFailed(reply)
       THEN ThrowChatFailed(r, reply)
     ELSE IF reply.json = "unparsable"
       THEN /\ Catch(r, "Unexpected token < in JSON at position 0")
            /\ UNCHANGED <<chatCalls, sigCalls, chatData, signatureUrl>>
     ELSE IF reply.json = "null"
       THEN /\ Catch(r, "Cannot read properties of null (reading 'id')")
            /\ UNCHANGED <<chatCalls, sigCalls, chatData, signatureUrl>>
     ELSE /\ StoreChatData(r, reply.data)
          /\ signatureUrl' = [signatureUrl EXCEPT ![r] = SignatureUrl(reply.data.id)]
          /\ sigCalls' = [sigCalls EXCEPT ![r] = @ + 1]
          /\ pc' = [pc EXCEPT ![r] = "awaitSignature"]
          /\ UNCHANGED <<responses, chatCalls>>

\* The handler from the settled signature fetch to its end.
AfterSignatureFetch(r, reply) ==
  /\ UNCHANGED handlerVars
  /\ IF reply.kind = "reject"
       THEN Catch(r, reply.statusText)
     ELSE IF SignatureFailed(reply)
       THEN Catch(r, "Signature API failed: " \o ToString(reply.status) \o " " \o reply.statusText)
     ELSE IF reply.json = "unparsable"
       THEN Catch(r, "Unexpected token < in JSON at position 0")
     ELSE LET content == FirstChoiceContent(chatData[r])
          IN IF content.threw
               THEN Catch(r, content.value)
               ELSE Respond(r, 200, CombinedBody(chatData[r], reply.data, content.value))

(***************************************************************************)
(* Routing.                                                                *)
(***************************************************************************)

\* Variant: the routes mounted without the middleware.
RouteChainUngated(path) ==
  IF path = "/weather" THEN <<"weatherHandler">> ELSE <<"teeDemoHandler">>

\* app.get(path, await createMiddleware({...}), handler)
RouteChain(path) ==
  IF path = "/weather"
    THEN <<"paymentMiddleware", "weatherHandler">>
    ELSE <<"paymentMiddleware", "teeDemoHandler">>

InnerAction(r, handler) ==
  IF handler = "weatherHandler" THEN WeatherHandler(r) ELSE TeeDemoHandler(r)

RejectionBody(reason) == [error |-> "Payment Required", reason |-> reason]

\* The payment middleware up to its call of the verifier: a request without
\* a proof is rejected without calling the verifier.
PaymentMiddleware(r, pf) ==
  IF pf = "none"
    THEN /\ verdict' = [verdict EXCEPT ![r] = "Rejected"]
         /\ Respond(r, 402, RejectionBody("missing proof"))
         /\ UNCHANGED handlerVars
    ELSE /\ pc' = [pc EXCEPT ![r] = "verifying"]
         /\ UNCHANGED <<verdict, responses, handlerVars>>

\* The payment middleware once the verifier has settled.
PaymentVerified(r, outcome) ==
  /\ verdict' = [verdict EXCEPT ![r] = outcome]
  /\ CASE outcome = "Accepted" -> InnerAction(r, RouteChain(route[r])[2])
       [] outcome = "Rejected" ->
            /\ Respond(r, 402, RejectionBody("invalid proof"))
            /\ UNCHANGED handlerVars
       [] outcome = "Error" ->
            /\ Respond(r, 500, [error |-> "payment verification failed"])
            /\ UNCHANGED handlerVars

(***************************************************************************)
(* Actions.                                                                *)
(***************************************************************************)

\* A request arrives on a new connection and Express runs the first entry
\* of the route's chain.  Requests are numbered in their order of arrival.
Arrive(r, path, pf) ==
  /\ lifecycle = "serving"
  /\ pc[r] = "idle"
  /\ \A q \in Requests : q < r => pc[q] # "idle"
  /\ route' = [route EXCEPT ![r] = path]
  /\ proof' = [proof EXCEPT ![r] = pf]
  /\ IF Head(RouteChain(path)) = "paymentMiddleware"
       THEN PaymentMiddleware(r, pf)
       ELSE InnerAction(r, Head(RouteChain(path))) /\ UNCHANGED verdict
  /\ UNCHANGED <<configVars, serverVars, netVars>>

VerifierSettles(r, outcome) ==
  /\ lifecycle # "exited"
  /\ pc[r] = "verifying"
  /\ PaymentVerified(r, outcome)
  /\ UNCHANGED <<configVars, serverVars, requestVars, netVars>>

ChatFetchSettles(r, reply) ==
  /\ lifecycle # "exited"
  /\ pc[r] = "awaitChat"
  /\ chatReply' = [chatReply EXCEPT ![r] = reply]
  /\ AfterChatFetch(r, reply)
  /\ UNCHANGED <<configVars, serverVars, requestVars, verdict, sigReply>>

SignatureFetchSettles(r, reply) ==
  /\ lifecycle # "exited"
  /\ pc[r] = "awaitSignature"
  /\ sigReply' = [sigReply EXCEPT ![r] = reply]
  /\ AfterSignatureFetch(r, reply)
  /\ UNCHANGED <<configVars, serverVars, requestVars, verdict, chatReply>>

\* Variant: process.exit(0) called next to server.close(), not in its callback.
shutdownNow ==
  /\ lifecycle # "exited"
  /\ closeCallbacks < MaxSignals
  /\ closeCallbacks' = closeCallbacks + 1
  /\ lifecycle' = "exited"
  /\ UNCHANGED <<configVars, pc, requestVars, verdict, handlerVars, netVars, responses>>

\* server.close(cb): the listening socket is closed at once; cb runs on the
\* server's close event.  On a server that no longer listens, close(cb)
\* registers cb for the same event.
shutdown ==
  /\ lifecycle # "exited"
  /\ closeCallbacks < MaxSignals
  /\ closeCallbacks' = closeCallbacks + 1
  /\ lifecycle' = "draining"
  /\ UNCHANGED <<configVars, pc, requestVars, verdict, handlerVars, netVars, responses>>

\* SIGTERM or SIGINT is delivered to the process.
Signal(sig) == shutdown

\* The server's close event: the listening socket is closed and the last
\* connection has ended.  The registered callbacks run: process.exit(0).
ServerClosed ==
  /\ lifecycle = "draining"
  /\ InFlight = {}
  /\ lifecycle' = "exited"
  /\ UNCHANGED <<configVars, closeCallbacks, pc, requestVars,
                 verdict, handlerVars, netVars, responses>>

\* What the signature endpoint can answer to the pending fetch of r: it
\* answers for the id in the path of the URL it was asked for.
SignatureRepliesFor(r) ==
  IF pc[r] = "awaitSignature"
    THEN SignatureReplies(UrlPathId(signatureUrl[r]))
    ELSE {}

Next ==
  \/ \E r \in Requests, path \in Routes, pf \in {"none", "present"} : Arrive(r, path, pf)
  \/ \E r \in Requests, outcome \in {"Accepted", "Rejected", "Error"} : VerifierSettles(r, outcome)
  \/ \E r \in Requests, reply \in ChatReplies : ChatFetchSettles(r, reply)
  \/ \E r \in Requests : \E reply \in SignatureRepliesFor(r) : SignatureFetchSettles(r, reply)
  \/ \E sig \in {"SIGTERM", "SIGINT"} : Signal(sig)
  \/ ServerClosed

Spec == Init /\ [][Next]_vars

(***************************************************************************)
(* The lifecycle of the server does not depend on what the replies carry:  *)
(* the specification for its progress lets each upstream call fail or      *)
(* succeed with one body, and states the fairness of the event loop, which *)
(* runs a pending close event.                                             *)
(***************************************************************************)
DrainChatReplies ==
  { RejectedFetch(NoChatData),
    HttpReply(200, "OK", "object", ChatObject("req-1", TRUE, <<Choice(TRUE, "hi")>>)) }

DrainSignatureRepliesFor(r) ==
  { reply \in SignatureRepliesFor(r) :
      reply.kind = "reject" \/ (reply.json = "object" /\ reply.data.hasCertChain) }

DrainNext ==
  \/ \E r \in Requests, path \in Routes, pf \in {"none", "present"} : Arrive(r, path, pf)
  \/ \E r \in Requests, outcome \in {"Accepted", "Rejected", "Error"} : VerifierSettles(r, outcome)
  \/ \E r \in Requests, reply \in DrainChatReplies : ChatFetchSettles(r, reply)
  \/ \E r \in Requests : \E reply \in DrainSignatureRepliesFor(r) : SignatureFetchSettles(r, reply)
  \/ \E sig \in {"SIGTERM", "SIGINT"} : Signal(sig)
  \/ ServerClosed

DrainSpec == Init /\ [][DrainNext]_vars /\ WF_vars(ServerClosed)

(***************************************************************************)
(* Properties.                                                             *)
(***************************************************************************)

Answered(r) == pc[r] = "done"

Status(r) == responses[r][1].status

Body(r) == responses[r][1].body

\* The request was answered once, with status 200, by the /tee-demo handler.
TeeSuccess(r) ==
  /\ route[r] = "/tee-demo"
  /\ Answered(r)
  /\ Len(responses[r]) = 1
  /\ Status(r) = 200

\* C1: a request to a gated route that carries no proof, or whose proof the
\* verifier rejects, is answered with the rejection status 402 and a body
\* with a reason, and the route's handler never runs for it; the handler
\* runs for no request whose verification outcome is not Accepted.
C1_RejectedNeverRunsInner ==
  \A r \in Requests :
    /\ innerCalls[r] > 0 => verdict[r] = "Accepted"
    /\ (pc[r] # "idle" /\ proof[r] = "none") =>
         /\ verdict[r] = "Rejected"
         /\ Answered(r)
    /\ verdict[r] = "Rejected" =>
         /\ Answered(r)
         /\ Len(responses[r]) = 1
         /\ Status(r) = 402
         /\ "reason" \in DOMAIN Body(r)
         /\ innerCalls[r] = 0
         /\ chatCalls[r] = 0
         /\ sigCalls[r] = 0
    /\ verdict[r] = "Error" =>
         /\ Answered(r)
         /\ innerCalls[r] = 0

C1_Witness ==
  \E r, q \in Requests :
    /\ route[r] = "/tee-demo" /\ proof[r] = "present"
    /\ verdict[r] = "Rejected" /\ Answered(r) /\ Status(r) = 402
    /\ route[q] = "/weather" /\ proof[q] = "none"
    /\ verdict[q] = "Rejected" /\ Answered(q) /\ Status(q) = 402
    /\ innerCalls[r] = 0 /\ innerCalls[q] = 0

\* C2: for a request whose proof the verifier accepts the route's handler
\* runs exactly once and the one response written is the handler's: for
\* /weather status 200 with the fixed body (temperature 72, conditions
\* sunny, message), for /tee-demo the handler's 200 or 500 body.
C2_AcceptedRunsInnerOnce ==
  \A r \in Requests :
    verdict[r] = "Accepted" =>
      /\ innerCalls[r] = 1
      /\ Len(responses[r]) <= 1
      /\ route[r] = "/weather" =>
           /\ Answered(r)
           /\ responses[r] =
                << [status |-> 200,
                    body |-> [temperature |-> 72, conditions |-> "sunny",
                              message |-> "Thanks for your payment!"]] >>
      /\ (route[r] = "/tee-demo" /\ Answered(r)) =>
           /\ Len(responses[r]) = 1
           /\ Status(r) \in {200, 500}
           /\ "message" \in DOMAIN Body(r)
           /\ "reason" \notin DOMAIN Body(r)

C2_Witness ==
  \E r, q \in Requests :
    /\ route[r] = "/weather" /\ verdict[r] = "Accepted" /\ Answered(r)
    /\ innerCalls[r] = 1 /\ Status(r) = 200
    /\ TeeSuccess(q) /\ verdict[q] = "Accepted" /\ innerCalls[q] = 1

\* C3: the signature fetch of a request is issued only after the chat fetch
\* of the same request has settled with a 2xx status: while the chat fetch
\* is pending no signature fetch has been made, and after a non-2xx chat
\* status (or a rejected chat fetch) the request has no signature fetch.
C3_SignatureOnlyAfterChatSuccess ==
  \A r \in Requests :
    /\ pc[r] = "awaitChat" => sigCalls[r] = 0
    /\ sigCalls[r] > 0 =>
         /\ chatCalls[r] = 1
         /\ chatReply[r].kind = "http"
         /\ chatReply[r].status >= 200 /\ chatReply[r].status <= 299
    /\ (chatReply[r].kind = "http" /\ chatReply[r].status = 500) =>
         /\ sigCalls[r] = 0
         /\ signatureUrl[r] = ""

C3_Witness ==
  \E r, q \in Requests :
    /\ chatReply[r].kind = "http" /\ chatReply[r].status = 500
    /\ Answered(r) /\ chatCalls[r] = 1 /\ sigCalls[r] = 0
    /\ sigCalls[q] = 1 /\ chatReply[q].status = 200

\* C4 as stated: with REDPILL_API_KEY unset every answered /tee-demo request
\* has status 500 and the configuration-error body, and no chat or
\* signature fetch is ever made.
C4_EveryRequestGets500 ==
  REDPILL_API_KEY = Undefined =>
    \A r \in Requests :
      /\ chatCalls[r] = 0
      /\ sigCalls[r] = 0
      /\ (route[r] = "/tee-demo" /\ Answered(r)) =>
           /\ Len(responses[r]) = 1
           /\ Status(r) = 500
           /\ Body(r) = [error |-> "Service configuration error",
                         message |-> "REDPILL_API_KEY not configured in environment"]

\* C4, amended: with REDPILL_API_KEY unset every /tee-demo request that
\* passes payment verification is answered at once with status 500 and the
\* configuration-error body, a request that does not pass is answered by
\* the payment gate as on any other day, and no chat or signature fetch is
\* ever made for any request.
C4_AcceptedRequestGets500 ==
  REDPILL_API_KEY = Undefined =>
    \A r \in Requests :
      /\ chatCalls[r] = 0
      /\ sigCalls[r] = 0
      /\ pc[r] \notin {"awaitChat", "awaitSignature"}
      /\ (route[r] = "/tee-demo" /\ verdict[r] = "Accepted") =>
           /\ Answered(r)
           /\ Len(responses[r]) = 1
           /\ Status(r) = 500
           /\ Body(r) = [error |-> "Service configuration error",
                         message |-> "REDPILL_API_KEY not configured in environment"]
      /\ (route[r] = "/tee-demo" /\ Answered(r) /\ verdict[r] # "Accepted") =>
           /\ innerCalls[r] = 0
           /\ Status(r) \in {402, 500}
           /\ "message" \notin DOMAIN Body(r)

C4_Witness ==
  /\ REDPILL_API_KEY = Undefined
  /\ \A r \in Requests :
       /\ route[r] = "/tee-demo" /\ verdict[r] = "Accepted"
       /\ Answered(r) /\ Status(r) = 500
       /\ chatCalls[r] = 0

CredentialUnset(r) == REDPILL_API_KEY \in {Undefined, ""}

ChatCallFailed(r) ==
  /\ chatReply[r].json # "none"
  /\ \/ chatReply[r].kind = "reject"
     \/ chatReply[r].status < 200
     \/ chatReply[r].status > 299
     \/ chatReply[r].json \in {"unparsable", "null"}

ChatBodyMalformed(r) ==
  /\ chatReply[r].json = "object"
  /\ \/ ~chatReply[r].data.hasChoices
     \/ /\ Len(chatReply[r].data.choices) > 0
        /\ ~chatReply[r].data.choices[1].hasMessage

SignatureCallFailed(r) ==
  /\ sigReply[r].json # "none"
  /\ \/ sigReply[r].kind = "reject"
     \/ sigReply[r].status < 200
     \/ sigReply[r].status > 299
     \/ sigReply[r].json = "unparsable"

TeeFailure(r) ==
  \/ CredentialUnset(r)
  \/ ChatCallFailed(r)
  \/ SignatureCallFailed(r)
  \/ ChatBodyMalformed(r) /\ sigReply[r].json # "none"

\* C6: every failure of the /tee-demo handler (credential unset, chat fetch
\* rejected, non-2xx, unparsable or malformed, signature fetch rejected,
\* non-2xx or unparsable) ends in the same step with exactly one response,
\* status 500, whose body has an error and a message field; no request is
\* left unanswered by an exception that escapes the handler.
C6_FailuresAnswered500 ==
  \A r \in Requests :
    /\ pc[r] # "unhandled"
    /\ Len(responses[r]) <= 1
    /\ (route[r] = "/tee-demo" /\ innerCalls[r] > 0 /\ TeeFailure(r)) =>
         /\ Answered(r)
         /\ Len(responses[r]) = 1
         /\ Status(r) = 500
         /\ {"error", "message"} \subseteq DOMAIN Body(r)
    /\ (route[r] = "/tee-demo" /\ innerCalls[r] > 0 /\ Answered(r)
          /\ Status(r) # 200) => TeeFailure(r)

C6_Witness ==
  \E r, q \in Requests :
    /\ route[r] = "/tee-demo" /\ Answered(r) /\ Status(r) = 500
    /\ ChatBodyMalformed(r) /\ sigReply[r].status = 200
    /\ route[q] = "/tee-demo" /\ Answered(q) /\ Status(q) = 500
    /\ SignatureCallFailed(q)

\* C8: one run of the /tee-demo handler makes at most one chat fetch and at
\* most one signature fetch, exactly one of each when it answers 200; a
\* failed fetch is not repeated; and nothing is reused from another
\* request: every accepted /tee-demo request (credential set) makes its own
\* chat fetch, and its own signature fetch once its chat fetch returned a
\* parsed 2xx body, whatever happened to the other requests.
C8_OneCallEachNoRetryNoCache ==
  \A r \in Requests :
    /\ chatCalls[r] <= 1
    /\ sigCalls[r] <= 1
    /\ chatCalls[r] + sigCalls[r] > 0 => innerCalls[r] = 1
    /\ TeeSuccess(r) => chatCalls[r] = 1 /\ sigCalls[r] = 1
    /\ (route[r] = "/tee-demo" /\ verdict[r] = "Accepted"
          /\ REDPILL_API_KEY \notin {Undefined, ""}) => chatCalls[r] = 1
    /\ (chatReply[r].kind = "http" /\ chatReply[r].status = 200
          /\ chatReply[r].json = "object") => sigCalls[r] = 1
    /\ ChatCallFailed(r) => Answered(r) /\ sigCalls[r] = 0

C8_Witness ==
  \E r, q \in Requests :
    /\ r < q
    /\ route[r] = "/tee-demo" /\ Answered(r) /\ ChatCallFailed(r)
    /\ chatCalls[r] = 1
    /\ TeeSuccess(q) /\ chatCalls[q] = 1 /\ sigCalls[q] = 1

\* The content the response is to carry: the first choice's message content,
\* the empty string when there is none.
ClaimedContent(data) ==
  IF /\ data.hasChoices
     /\ Len(data.choices) > 0
     /\ data.choices[1].hasMessage
     /\ data.choices[1].content # Undefined
    THEN data.choices[1].content
    ELSE ""

\* C9: when both upstream calls return a parsed 2xx body the request is
\* answered 200 with chat.response equal to the first choice's message
\* content, the empty string when the body has no choices, no first choice,
\* no message or no content, and with tee_verification.cert_chain_length
\* equal to the length of cert_chain, 0 when cert_chain is missing.
C9_ContentDefaultsToEmpty ==
  \A r \in Requests :
    (/\ route[r] = "/tee-demo"
     /\ Answered(r)
     /\ chatReply[r].status = 200 /\ chatReply[r].json = "object"
     /\ sigReply[r].status = 200 /\ sigReply[r].json = "object") =>
      /\ Status(r) = 200
      /\ Body(r).chat.response = ClaimedContent(chatReply[r].data)
      /\ Body(r).tee_verification.cert_chain_length =
           IF sigReply[r].data.hasCertChain
             THEN Len(sigReply[r].data.cert_chain) ELSE 0

\* The state predicate of C10: each request's signature fetch and response
\* are built from the replies to that request's own fetches.
OwnDataOnly ==
  \A r \in Requests :
    /\ pc[r] = "awaitSignature" => chatData[r] = chatReply[r].data
    /\ sigCalls[r] > 0 =>
         signatureUrl[r] =
           SignaturePrefix
             \o (IF chatReply[r].data.id = Undefined
                   THEN "undefined" ELSE chatReply[r].data.id)
             \o SignatureQuery
    /\ TeeSuccess(r) =>
         /\ Body(r).chat.request_id = chatReply[r].data.id
         /\ Body(r).chat.model = chatReply[r].data.model
         /\ Body(r).chat.response = ClaimedContent(chatReply[r].data)
         /\ Body(r).tee_verification.request_id = sigReply[r].data.request_id
         /\ Body(r).tee_verification.cert_chain_length =
              IF sigReply[r].data.hasCertChain
                THEN Len(sigReply[r].data.cert_chain) ELSE 0

\* C10: under every interleaving of the steps of concurrently handled
\* requests, each request's signature fetch uses the id its own chat fetch
\* returned and each 200 response combines that request's own chat and
\* signature replies; and no step changes the configuration read at load
\* (credential, payee).
C10_NoCrossRequestData ==
  /\ []OwnDataOnly
  /\ [][REDPILL_API_KEY' = REDPILL_API_KEY /\ payTo' = payTo]_vars

C10_Witness ==
  \E r, q \in Requests :
    /\ r # q
    /\ pc[r] = "awaitSignature" /\ pc[q] = "awaitSignature"
    /\ chatReply[r].data.id = "req-1"
    /\ chatReply[q].data.id = "req-2"
    /\ UrlPathId(signatureUrl[r]) = "req-1"
    /\ UrlPathId(signatureUrl[q]) = "req-2"

\* A request in flight can take its next step.
CanProceed(r) ==
  \/ pc[r] = "verifying" /\ ENABLED VerifierSettles(r, "Accepted")
  \/ pc[r] = "awaitChat" /\ ENABLED (\E reply \in ChatReplies : ChatFetchSettles(r, reply))
  \/ pc[r] = "awaitSignature"
       /\ ENABLED (\E reply \in SignatureRepliesFor(r) : SignatureFetchSettles(r, reply))

\* The state predicate of C7: the process has not exited while a request is
\* unanswered, and a draining server lets the requests in flight go on.
ExitOnlyWhenDrained ==
  /\ lifecycle = "exited" =>
       \A r \in Requests :
         pc[r] = "idle" \/ (Answered(r) /\ Len(responses[r]) = 1)
  /\ lifecycle = "draining" => \A r \in InFlight : CanProceed(r)
  /\ lifecycle # "serving" => closeCallbacks > 0

\* C7: after SIGTERM or SIGINT the server takes no new request; the
\* requests in flight go on and are answered; the process exits only when
\* none is in flight, never earlier, also when a second signal arrives
\* during the drain; and once none is in flight it does exit.
C7_GracefulDrain ==
  /\ []ExitOnlyWhenDrained
  /\ [][lifecycle # "serving" =>
          \A r \in Requests : pc[r] = "idle" => pc'[r] = "idle"]_vars
  /\ [][lifecycle' = "exited" => InFlight = {}]_vars
  /\ [][lifecycle = "exited" => lifecycle' = "exited"]_vars
  /\ (lifecycle = "draining" /\ InFlight = {}) ~> (lifecycle = "exited")

C7_Witness ==
  /\ lifecycle = "draining"
  /\ closeCallbacks = 2
  /\ \E r, q \in Requests :
       /\ r # q
       /\ pc[r] = "awaitSignature"
       /\ TeeSuccess(q)

====
